---- MODULE Spec2Model ----
(***************************************************************************)
(* Model of src/pages/script.js: the modal dialog (showModal), the toast   *)
(* notification (showNotification) and the mobile menu of the navigation   *)
(* bar, as handlers run to completion by a single-threaded event loop.     *)
(*                                                                         *)
(* Every action is one handler dispatch: the DOM event with all listeners  *)
(* it reaches (target listeners first, then the document-level ones), or   *)
(* one timer callback.  setTimeout callbacks with the same delay (300 ms)  *)
(* run in the order they were scheduled: `timers` is that FIFO queue.  The *)
(* auto-dismiss timer of a notification has a caller-chosen delay and may  *)
(* therefore fire at any point: `autoPending` is an unordered set.         *)
(***************************************************************************)
EXTENDS Integers, Sequences, FiniteSets, TLC

\* ---------------------------------------------------------------- bounds
MaxModals == 2        \* showModal calls in one behaviour
MaxNotifs == 3        \* showNotification calls in one behaviour
MaxTimers == 2        \* 300 ms timers pending at one time
MaxFade == 2          \* elements of the page with class fade-in
MaxEntries == 2       \* entries in one IntersectionObserver callback
MaxRequests == 2      \* apiRequest calls in one behaviour
MaxElements == 2      \* elements showLoading / hideLoading are applied to
MaxShows == 2         \* showLoading calls on an element between two hideLoading
MaxCalls == 3         \* calls of the debounced function in one behaviour
MaxTime == 4          \* milliseconds the clock runs for
MaxWait == 2          \* the wait debounce is given, in milliseconds

\* ------------------------------------------------------- program constants
ScrollThreshold == 50 \* handleNavbarScroll: window.scrollY > 50

ModalIds == 1..MaxModals
NotifIds == 1..MaxNotifs
FadeIds == 1..MaxFade

\* ---------------------------------------------------------------- inputs
Undefined == "undefined"

\* The option objects handed to showModal.  closeOnOutsideClick is kept as
\* the JavaScript value it has ("undefined" when the field is left out).
ModalOptions ==
    { [title |-> "Alpha", content |-> "<p>a</p>", onClose |-> TRUE,
       closeOnOutsideClick |-> Undefined],
      [title |-> Undefined, content |-> Undefined, onClose |-> FALSE,
       closeOnOutsideClick |-> "false"],
      [title |-> "Beta", content |-> "<p>b</p>", onClose |-> TRUE,
       closeOnOutsideClick |-> "true"] }

NoOptions == [title |-> Undefined, content |-> Undefined, onClose |-> FALSE,
              closeOnOutsideClick |-> Undefined]

VARIABLES
    \* --- navigation bar
    menuTogglePresent,  \* document.getElementById('menuToggle') is not null
    navLinksPresent,    \* document.getElementById('navLinks') is not null
    menuOpen,           \* navLinks.classList.contains('active')
    toggleIcon,         \* glyph in menuToggle.innerHTML: "bars" or "times"
    navbarPresent,      \* document.querySelector('.navbar') is not null
    scrollY,            \* window.scrollY
    navbarScrolled,     \* navbar.classList.contains('scrolled')
    fadeOpacity,        \* element.style.opacity of each fade-in element
    fadeObserved,       \* fade-in elements the IntersectionObserver observes
    \* --- document
    overflow,           \* document.body.style.overflow: "" or "hidden"
    modalsInBody,       \* children of body with id dynamic-modal, document order
    notifsInBody,       \* children of body with class notification, document order
    \* --- event loop
    timers,             \* pending 300 ms setTimeout callbacks, FIFO
    autoPending,        \* notifications whose auto-dismiss timer is pending
    escListeners,       \* modals whose closeOnEscape is a keydown listener
    \* --- one closure per showModal call
    modalCount,         \* showModal calls so far
    options,            \* the options object each call closed over
    titleText,          \* modalTitle.textContent
    bodyHTML,           \* modalBody.innerHTML
    modalAnim,          \* modalOverlay.style.animation: "fadeIn" or "fadeOut"
    \* --- one closure per showNotification call
    notifCount,         \* showNotification calls so far
    notifAnim,          \* notification.style.animation: "slideIn" or "slideOut"
    \* --- observations
    onCloseCalls,       \* invocations of options.onClose, per modal
    closeLog,           \* what each onClose invocation could observe
    modalThrew,         \* modals whose teardown callback threw NotFoundError
    dismissedShown,     \* modals for which closeModal ran while they were displayed
    navThrew,           \* a navigation handler threw TypeError
    notifRemovals,      \* times each notification was detached from the document
    notifThrew,         \* a notification callback threw
    notifClass,         \* notification id -> the type in its class name
    notifIcon,          \* notification id -> the icon class in its markup
    notifColor,         \* notification id -> the background in its style
    apiCount,           \* number of apiRequest calls made
    apiOptions,         \* call id -> the options the caller passed
    apiSent,            \* call id -> headers of each request fetch was given
    apiPhase,           \* call id -> where the async function is suspended
    apiFailure,         \* call id -> what failed, if anything
    apiResult,          \* call id -> the promise apiRequest returned
    element,            \* element id -> content, disabled flag, attributes
    pristine,           \* element id -> content and flag before showLoading
    loadingShown,       \* element id -> showLoading calls since hideLoading
    dbWait,             \* the wait debounce(func, wait) was given
    dbNow,              \* the clock, in milliseconds
    dbTimeout,          \* the closure's timeout: a timer id, 0 when undefined
    dbPending,          \* the timers of the wrapper the event loop holds
    dbCalls,            \* the calls of the wrapper so far
    dbInvocations       \* the invocations of func so far

\* What only the scroll listener and the observer callback write.
scrollVars == <<navbarPresent, scrollY, navbarScrolled, fadeOpacity, fadeObserved>>
navVars   == <<menuTogglePresent, navLinksPresent, menuOpen, toggleIcon, navThrew,
               scrollVars>>
modalVars == <<modalsInBody, escListeners, modalCount, options, titleText,
               bodyHTML, modalAnim, onCloseCalls, closeLog, modalThrew,
               dismissedShown>>
notifLook == <<notifClass, notifIcon, notifColor>>
notifVars == <<notifsInBody, autoPending, notifCount, notifAnim,
               notifRemovals, notifThrew, notifLook>>
apiVars   == <<apiCount, apiOptions, apiSent, apiPhase, apiFailure, apiResult>>
loadingVars == <<element, pristine, loadingShown>>
debounceVars == <<dbWait, dbNow, dbTimeout, dbPending, dbCalls, dbInvocations>>
utilVars  == <<apiVars, loadingVars, debounceVars>>
pageVars  == <<navVars, overflow, timers, modalVars, notifVars>>
vars == <<pageVars, utilVars>>

\* ---------------------------------------------------------------- helpers
Range(s) == { s[k] : k \in 1..Len(s) }

Contains(s, e) == e \in Range(s)

\* The sequence s without its occurrences of e.
Without(s, e) == SelectSeq(s, LAMBDA x : x # e)

\* The elements of a set of integers as an ascending sequence.
RECURSIVE Ascending(_)
Ascending(S) ==
    IF S = {} THEN <<>>
    ELSE LET m == CHOOSE x \in S : \A y \in S : x <= y
         IN  <<m>> \o Ascending(S \ {m})

\* Element.remove(): detaches the element; nothing happens when it has no
\* parent.
ElementRemove(children, e) == [children |-> Without(children, e), threw |-> FALSE]

\* Node.removeChild(child): throws NotFoundError when child is not a child of
\* the node, and then changes nothing.
RemoveChild(children, e) ==
    IF Contains(children, e)
    THEN [children |-> Without(children, e), threw |-> FALSE]
    ELSE [children |-> children, threw |-> TRUE]

\* `a || b` on strings: undefined and the empty string are falsy.
OrElse(a, b) == IF a = Undefined \/ a = "" THEN b ELSE a

ApiIds == 1..MaxRequests
ElementIds == 1..MaxElements

\* An options object with no property.
NoRequestOptions == [k \in {} |-> Undefined]

\* The promise of an apiRequest call that has not settled.
PendingPromise ==
    [state |-> "pending", success |-> Undefined, error |-> Undefined,
     data |-> Undefined]

\* An element as written in the markup: no saved-original attribute.
MarkupElement(content, flag) ==
    [innerHTML |-> content, disabled |-> flag,
     originalContent |-> Undefined, originalDisabled |-> Undefined]

\* The content an element has in the markup; a button may be empty.
InitialContents == {"", "Save"}

InitialElements ==
    { MarkupElement(c, d) : c \in InitialContents, d \in BOOLEAN }

ModalTimer(i) == [kind |-> "modalClose", id |-> i]
NotifTimer(n) == [kind |-> "notifRemove", id |-> n]

\* The state once DOMContentLoaded has run initNavigation,
\* initScrollAnimations and initMobileMenu, on a page that has or lacks the
\* menu toggle, the link list and the navbar.
InitPage(hasToggle, hasLinks, hasNavbar) ==
    /\ menuTogglePresent = hasToggle
    /\ navLinksPresent = hasLinks
    /\ navbarPresent = hasNavbar
    /\ scrollY = 0
    /\ navbarScrolled = FALSE
    /\ fadeOpacity = [e \in FadeIds |-> "0"]
    /\ fadeObserved = FadeIds
    /\ menuOpen = FALSE
    /\ toggleIcon = "bars"
    /\ overflow = ""
    /\ modalsInBody = <<>>
    /\ notifsInBody = <<>>
    /\ timers = <<>>
    /\ autoPending = {}
    /\ escListeners = {}
    /\ modalCount = 0
    /\ options = [i \in ModalIds |-> NoOptions]
    /\ titleText = [i \in ModalIds |-> ""]
    /\ bodyHTML = [i \in ModalIds |-> ""]
    /\ modalAnim = [i \in ModalIds |-> "fadeIn"]
    /\ notifCount = 0
    /\ notifAnim = [n \in NotifIds |-> "slideIn"]
    /\ onCloseCalls = [i \in ModalIds |-> 0]
    /\ closeLog = <<>>
    /\ modalThrew = {}
    /\ dismissedShown = {}
    /\ notifRemovals = [n \in NotifIds |-> 0]
    /\ notifThrew = FALSE
    /\ notifClass = [n \in NotifIds |-> Undefined]
    /\ notifIcon = [n \in NotifIds |-> Undefined]
    /\ notifColor = [n \in NotifIds |-> Undefined]
    /\ navThrew = FALSE
    /\ apiCount = 0
    /\ apiOptions = [r \in ApiIds |-> NoRequestOptions]
    /\ apiSent = [r \in ApiIds |-> << >>]
    /\ apiPhase = [r \in ApiIds |-> "notCalled"]
    /\ apiFailure = [r \in ApiIds |-> "none"]
    /\ apiResult = [r \in ApiIds |-> PendingPromise]

\* The elements as the page's markup has them.
InitElements(els) ==
    /\ element = els
    /\ pristine = [el \in ElementIds |->
                      [innerHTML |-> els[el].innerHTML,
                       disabled |-> els[el].disabled]]
    /\ loadingShown = [el \in ElementIds |-> 0]

\* debounce(func, wait) has returned the wrapper: timeout is undefined.
InitDebounce(wait) ==
    /\ dbWait = wait
    /\ dbNow = 0
    /\ dbTimeout = 0
    /\ dbPending = {}
    /\ dbCalls = << >>
    /\ dbInvocations = << >>

\* The page with all three elements.
Init ==
    /\ InitPage(TRUE, TRUE, TRUE)
    /\ InitElements([el \in ElementIds |-> MarkupElement("Save", FALSE)])
    /\ InitDebounce(MaxWait)

\* Any page.
InitAnyPage ==
    /\ \E t, l, b \in BOOLEAN : InitPage(t, l, b)
    /\ InitElements([el \in ElementIds |-> MarkupElement("Save", FALSE)])
    /\ InitDebounce(MaxWait)

\* The page with any elements to show a loading state on.
InitAnyElements ==
    /\ InitPage(TRUE, TRUE, TRUE)
    /\ \E els \in [ElementIds -> InitialElements] : InitElements(els)
    /\ InitDebounce(MaxWait)

\* The page with a function debounced by any wait.
InitAnyWait ==
    /\ InitPage(TRUE, TRUE, TRUE)
    /\ InitElements([el \in ElementIds |-> MarkupElement("Save", FALSE)])
    /\ \E wait \in 1..MaxWait : InitDebounce(wait)

\* ------------------------------------------------------------ navigation
\* The part of the state the menu functions read and write.
NavState ==
    [menuOpen |-> menuOpen, toggleIcon |-> toggleIcon, overflow |-> overflow,
     threw |-> navThrew]

SetNav(ns) ==
    /\ menuOpen' = ns.menuOpen
    /\ toggleIcon' = ns.toggleIcon
    /\ overflow' = ns.overflow
    /\ navThrew' = ns.threw
    /\ UNCHANGED <<menuTogglePresent, navLinksPresent, scrollVars>>

\* toggleMobileMenu(): flips the class, then sets glyph and scroll lock from
\* the new value.  It is registered only when both elements exist.
toggleMobileMenu(ns) ==
    LET active == ~ns.menuOpen
    IN  IF active
        THEN [ns EXCEPT !.menuOpen = TRUE, !.toggleIcon = "times",
                        !.overflow = "hidden"]
        ELSE [ns EXCEPT !.menuOpen = FALSE, !.toggleIcon = "bars",
                        !.overflow = ""]

\* Variant: closeMobileMenu() that leaves the scroll lock on.
closeMobileMenu_KeepsLock(ns) ==
    IF ~navLinksPresent
    THEN [ns EXCEPT !.threw = TRUE]
    ELSE [ns EXCEPT !.menuOpen = FALSE,
                    !.toggleIcon = IF menuTogglePresent THEN "bars" ELSE @]

\* closeMobileMenu(): navLinks is dereferenced unguarded, menuToggle guarded.
closeMobileMenu(ns) ==
    IF ~navLinksPresent
    THEN [ns EXCEPT !.threw = TRUE]
    ELSE [ns EXCEPT !.menuOpen = FALSE,
                    !.toggleIcon = IF menuTogglePresent THEN "bars" ELSE @,
                    !.overflow = ""]

\* event.target of a click, as far as the menu is concerned: the toggle
\* button itself, the <i> glyph inside it, a glyph that is no longer inside
\* it, something inside the menu, or anything else on the page.
ClickTargets == {"toggle", "glyph", "detachedGlyph", "menu", "page"}

\* navLinks.contains(event.target)
navLinksContains(target) == target = "menu"

\* menuToggle.contains(event.target)
menuToggleContains(target) == target \in {"toggle", "glyph"}

\* handleClickOutside(event): the document-level click listener.
handleClickOutside(ns, target) ==
    IF navLinksPresent /\ ns.menuOpen /\ ~navLinksContains(target)
    THEN IF ~menuTogglePresent
         THEN [ns EXCEPT !.threw = TRUE]
         ELSE IF ~menuToggleContains(target) THEN closeMobileMenu(ns) ELSE ns
    ELSE ns

\* The keydown listener initMobileMenu registers when both elements exist.
menuOnEscape(ns) ==
    IF menuTogglePresent /\ navLinksPresent /\ ns.menuOpen
    THEN closeMobileMenu(ns)
    ELSE ns

\* The click listener initNavigation puts on every .nav-link.
navLinkOnClick(ns) ==
    IF ~navLinksPresent
    THEN [ns EXCEPT !.threw = TRUE]
    ELSE IF ns.menuOpen THEN closeMobileMenu(ns) ELSE ns

\* Where a click on the menu toggle can land: on the button or on its glyph.
ToggleTargets == {"toggle", "glyph"}

\* What event.target is once the toggle's own listener has run: assigning
\* menuToggle.innerHTML replaces the glyph, so a clicked glyph is no longer
\* inside the toggle when the event reaches the document.
targetAfterToggle(target, listenerRan) ==
    IF listenerRan /\ target = "glyph" THEN "detachedGlyph" ELSE target

\* A click on the menu toggle: its own listener (registered when both
\* elements exist), then the document's.
ClickMenuToggle(target) ==
    /\ menuTogglePresent
    /\ LET registered == menuTogglePresent /\ navLinksPresent
           own == IF registered THEN toggleMobileMenu(NavState) ELSE NavState
       IN  SetNav(handleClickOutside(own, targetAfterToggle(target, registered)))
    /\ UNCHANGED <<timers, modalVars, notifVars>>
    /\ UNCHANGED utilVars

\* A click on a link of the menu: the link's listener, then the document's.
ClickNavLink ==
    /\ SetNav(handleClickOutside(navLinkOnClick(NavState),
                                 IF navLinksPresent THEN "menu" ELSE "page"))
    /\ UNCHANGED <<timers, modalVars, notifVars>>
    /\ UNCHANGED utilVars

\* A click inside the menu that hits no link.
ClickInsideMenu ==
    /\ navLinksPresent
    /\ SetNav(handleClickOutside(NavState, "menu"))
    /\ UNCHANGED <<timers, modalVars, notifVars>>
    /\ UNCHANGED utilVars

\* A click anywhere else on the page that has no listener of its own.
ClickPage ==
    /\ SetNav(handleClickOutside(NavState, "page"))
    /\ UNCHANGED <<timers, modalVars, notifVars>>
    /\ UNCHANGED utilVars

\* ------------------------------------------------- scroll and fade-in
\* The offsets a scroll event can report.
ScrollOffsets == {0, ScrollThreshold, ScrollThreshold + 1, 4 * ScrollThreshold}

\* handleNavbarScroll(): sets or clears the class when the navbar exists.
handleNavbarScroll(scrolled, y) ==
    IF navbarPresent THEN y > ScrollThreshold ELSE scrolled

\* A scroll event on the window.
Scroll(y) ==
    /\ y \in ScrollOffsets
    /\ scrollY' = y
    /\ navbarScrolled' = handleNavbarScroll(navbarScrolled, y)
    /\ UNCHANGED <<menuTogglePresent, navLinksPresent, menuOpen, toggleIcon,
                   navThrew, navbarPresent, fadeOpacity, fadeObserved,
                   overflow, timers, modalVars, notifVars>>
    /\ UNCHANGED utilVars

\* The part of the state the observer callback writes.
FadeState == [opacity |-> fadeOpacity, observed |-> fadeObserved]

\* Variant: the callback that also hides what no longer intersects.
observeEntry_HidesAgain(fs, entry) ==
    IF entry.isIntersecting
    THEN [opacity |-> [fs.opacity EXCEPT ![entry.target] = "1"],
          observed |-> fs.observed \ {entry.target}]
    ELSE [fs EXCEPT !.opacity = [@ EXCEPT ![entry.target] = "0"]]

\* The body of entries.forEach in the observer callback.
observeEntry(fs, entry) ==
    IF entry.isIntersecting
    THEN [opacity |-> [fs.opacity EXCEPT ![entry.target] = "1"],
          observed |-> fs.observed \ {entry.target}]
    ELSE fs

\* entries.forEach(...) over the batch the observer delivers.
RECURSIVE observerCallback(_, _)
observerCallback(fs, entries) ==
    IF entries = <<>> THEN fs
    ELSE observerCallback(observeEntry(fs, Head(entries)), Tail(entries))

\* The batches the observer can deliver: entries for elements it observed
\* when they were queued, the same element possibly more than once.
EntryBatches ==
    UNION { [1..k -> [target : fadeObserved, isIntersecting : BOOLEAN]] :
            k \in 1..MaxEntries }

\* The IntersectionObserver runs its callback with a batch of entries.
IntersectionReport(entries) ==
    /\ \A k \in 1..Len(entries) : entries[k].target \in fadeObserved
    /\ LET fs == observerCallback(FadeState, entries)
       IN  /\ fadeOpacity' = fs.opacity
           /\ fadeObserved' = fs.observed
    /\ UNCHANGED <<menuTogglePresent, navLinksPresent, menuOpen, toggleIcon,
                   navThrew, navbarPresent, scrollY, navbarScrolled,
                   overflow, timers, modalVars, notifVars>>
    /\ UNCHANGED utilVars

\* ----------------------------------------------------------------- modal
\* The first element with id dynamic-modal, or 0 when there is none.
getDynamicModal(children) == IF children = <<>> THEN 0 ELSE Head(children)

\* Variant: showModal without the removal of the existing modal.
RemoveExistingModal_Skipped(children) == children

\* showModal, "Remove existing modal": detaches what getElementById found.
RemoveExistingModal(children) ==
    IF getDynamicModal(children) # 0
    THEN ElementRemove(children, getDynamicModal(children)).children
    ELSE children

\* showModal(options): the call up to the returned handle.  It builds the
\* overlay, appends it to the body, locks scrolling and registers the
\* listeners; the keydown listener is registered whatever the options are.
ShowModal(o) ==
    /\ modalCount < MaxModals
    /\ LET i == modalCount + 1
       IN  /\ modalCount' = i
           /\ options' = [options EXCEPT ![i] = o]
           /\ titleText' = [titleText EXCEPT ![i] = OrElse(o.title, "Modal")]
           /\ bodyHTML' = [bodyHTML EXCEPT ![i] = OrElse(o.content, "")]
           /\ modalsInBody' = Append(RemoveExistingModal(modalsInBody), i)
           /\ escListeners' = escListeners \cup {i}
    /\ overflow' = "hidden"
    /\ UNCHANGED <<navVars, timers, notifVars, modalAnim, onCloseCalls,
                   closeLog, modalThrew, dismissedShown>>
    /\ UNCHANGED utilVars

\* The part of the state closeModal and closeOnEscape write.
CloseState ==
    [anim |-> modalAnim, timers |-> timers, listeners |-> escListeners,
     shown |-> dismissedShown]

\* closeModal(): starts the exit animation and schedules the teardown.
closeModal(cs, i) ==
    [cs EXCEPT !.anim = [@ EXCEPT ![i] = "fadeOut"],
               !.timers = Append(@, ModalTimer(i)),
               !.shown = IF Contains(modalsInBody, i) THEN @ \cup {i} ELSE @]

\* closeOnEscape(e) for e.key === 'Escape': closes, then deregisters itself.
closeOnEscape(cs, i) ==
    [closeModal(cs, i) EXCEPT !.listeners = @ \ {i}]

\* The registered closeOnEscape listeners, run in registration order.
RECURSIVE RunEscapeListeners(_, _)
RunEscapeListeners(cs, ids) ==
    IF ids = <<>> THEN cs
    ELSE RunEscapeListeners(closeOnEscape(cs, Head(ids)), Tail(ids))

SetClose(cs) ==
    /\ modalAnim' = cs.anim
    /\ timers' = cs.timers
    /\ escListeners' = cs.listeners
    /\ dismissedShown' = cs.shown

\* handle.close(): callable on any handle ever returned.
HandleClose(i) ==
    /\ i \in 1..modalCount
    /\ Len(timers) < MaxTimers
    /\ SetClose(closeModal(CloseState, i))
    /\ UNCHANGED <<navVars, overflow, notifVars, modalsInBody, modalCount,
                   options, titleText, bodyHTML, onCloseCalls, closeLog,
                   modalThrew>>
    /\ UNCHANGED utilVars

\* A click on the close button of a displayed modal: closeModal, then the
\* overlay's listener (the target is not the overlay), then the document's.
ClickCloseButton(i) ==
    /\ Contains(modalsInBody, i)
    /\ Len(timers) < MaxTimers
    /\ SetClose(closeModal(CloseState, i))
    /\ SetNav(handleClickOutside(NavState, "page"))
    /\ UNCHANGED <<notifVars, modalsInBody, modalCount, options, titleText,
                   bodyHTML, onCloseCalls, closeLog, modalThrew>>
    /\ UNCHANGED utilVars

\* Variant: the listener registered only for a truthy closeOnOutsideClick.
hasOutsideClickListener_Truthy(i) == options[i].closeOnOutsideClick = "true"

\* The overlay's click listener exists unless closeOnOutsideClick is false.
hasOutsideClickListener(i) == options[i].closeOnOutsideClick # "false"

\* A click whose target is the overlay itself: the overlay's listener when
\* there is one, then the document's.
ClickBackdrop(i) ==
    /\ Contains(modalsInBody, i)
    /\ hasOutsideClickListener(i) => Len(timers) < MaxTimers
    /\ IF hasOutsideClickListener(i)
       THEN SetClose(closeModal(CloseState, i))
       ELSE UNCHANGED <<modalAnim, timers, escListeners, dismissedShown>>
    /\ SetNav(handleClickOutside(NavState, "page"))
    /\ UNCHANGED <<notifVars, modalsInBody, modalCount, options, titleText,
                   bodyHTML, onCloseCalls, closeLog, modalThrew>>
    /\ UNCHANGED utilVars

\* A click on a descendant of the overlay other than the close button: the
\* overlay's listener, when there is one, sees a target that is not the
\* overlay; then the document's listener runs.
ClickModalContent(i) ==
    /\ Contains(modalsInBody, i)
    /\ SetNav(handleClickOutside(NavState, "page"))
    /\ UNCHANGED <<timers, modalVars, notifVars>>
    /\ UNCHANGED utilVars

\* The markup updateContent is called with.
NewContents == {"<p>new</p>"}

\* The part of the state the handle's updateContent writes.
HandleState == [body |-> bodyHTML, anim |-> modalAnim]

\* Variant: updateContent that restarts the entry animation.
updateContent_Reopens(hs, i, newContent) ==
    [body |-> [hs.body EXCEPT ![i] = newContent],
     anim |-> [hs.anim EXCEPT ![i] = "fadeIn"]]

\* handle.updateContent(newContent): modalBody.innerHTML = newContent.
updateContent(hs, i, newContent) ==
    [hs EXCEPT !.body = [@ EXCEPT ![i] = newContent]]

\* handle.updateContent(newContent): callable on any handle ever returned.
UpdateContent(i, newContent) ==
    /\ i \in 1..modalCount
    /\ LET hs == updateContent(HandleState, i, newContent)
       IN  /\ bodyHTML' = hs.body
           /\ modalAnim' = hs.anim
    /\ UNCHANGED <<navVars, overflow, timers, notifVars, modalsInBody,
                   escListeners, modalCount, options, titleText, onCloseCalls,
                   closeLog, modalThrew, dismissedShown>>
    /\ UNCHANGED utilVars

\* An Escape keydown on the document: the menu's listener (registered at
\* DOMContentLoaded), then every closeOnEscape still registered.
KeydownEscape ==
    /\ Len(timers) + Cardinality(escListeners) <= MaxTimers
    /\ SetNav(menuOnEscape(NavState))
    /\ SetClose(RunEscapeListeners(CloseState, Ascending(escListeners)))
    /\ UNCHANGED <<notifVars, modalsInBody, modalCount, options, titleText,
                   bodyHTML, onCloseCalls, closeLog, modalThrew>>
    /\ UNCHANGED utilVars

\* The part of the state the teardown callback reads and writes.
TeardownState ==
    [children |-> modalsInBody, overflow |-> overflow, calls |-> onCloseCalls,
     log |-> closeLog, threw |-> modalThrew]

\* options.onClose(): the callback is the caller's; it is taken to observe
\* the page and return.  The log keeps what it could see.
invokeOnClose(ts, i, handler) ==
    [ts EXCEPT !.calls = [@ EXCEPT ![i] = @ + 1],
               !.log = Append(@, [id |-> i,
                                  inDocument |-> Contains(ts.children, i),
                                  overflow |-> ts.overflow,
                                  during |-> handler])]

\* Variant: the callback with onClose invoked first.
closeModalTimeout_OnCloseFirst(ts, i) ==
    LET called == IF options[i].onClose THEN invokeOnClose(ts, i, "timer") ELSE ts
        r == RemoveChild(called.children, i)
    IN  IF r.threw
        THEN [called EXCEPT !.threw = @ \cup {i}]
        ELSE [called EXCEPT !.children = r.children, !.overflow = ""]

\* The callback closeModal hands to setTimeout: removeChild, restore
\* scrolling, then onClose when given.  A throw ends the callback.
closeModalTimeout(ts, i) ==
    LET r == RemoveChild(ts.children, i)
    IN  IF r.threw
        THEN [ts EXCEPT !.threw = @ \cup {i}]
        ELSE LET removed == [ts EXCEPT !.children = r.children]
                 restored == [removed EXCEPT !.overflow = ""]
             IN  IF options[i].onClose
                 THEN invokeOnClose(restored, i, "timer")
                 ELSE restored

\* The oldest 300 ms timer fires and it is a modal teardown.
ModalTeardownFires ==
    /\ timers # <<>>
    /\ Head(timers).kind = "modalClose"
    /\ LET ts == closeModalTimeout(TeardownState, Head(timers).id)
       IN  /\ modalsInBody' = ts.children
           /\ overflow' = ts.overflow
           /\ onCloseCalls' = ts.calls
           /\ closeLog' = ts.log
           /\ modalThrew' = ts.threw
    /\ timers' = Tail(timers)
    /\ UNCHANGED <<navVars, notifVars, escListeners, modalCount, options,
                   titleText, bodyHTML, modalAnim, dismissedShown>>
    /\ UNCHANGED utilVars

\* The modal and the menu share the scroll lock, the Escape key and the
\* document's click listener.  The notification shares with them only the
\* timer queue, whose order among the modal's callbacks it does not change,
\* and the document's click listener, which ClickPage covers.
NextModalNav ==
    \/ \E target \in ToggleTargets : ClickMenuToggle(target)
    \/ ClickNavLink
    \/ ClickInsideMenu
    \/ ClickPage
    \/ \E o \in ModalOptions : ShowModal(o)
    \/ \E i \in ModalIds : HandleClose(i)
    \/ \E i \in ModalIds : ClickCloseButton(i)
    \/ \E i \in ModalIds : ClickBackdrop(i)
    \/ \E i \in ModalIds : ClickModalContent(i)
    \/ KeydownEscape
    \/ ModalTeardownFires

SpecModalNav == Init /\ [][NextModalNav]_vars

\* The navigation bar on its own: menu, scroll effect and fade-in, with no
\* modal and no notification on the page.
NextNav ==
    \/ \E target \in ToggleTargets : ClickMenuToggle(target)
    \/ ClickNavLink
    \/ ClickInsideMenu
    \/ ClickPage
    \/ KeydownEscape
    \/ \E y \in ScrollOffsets : Scroll(y)
    \/ \E entries \in EntryBatches : IntersectionReport(entries)

SpecNav == InitAnyPage /\ [][NextNav]_vars

\* ---------------------------------------------------------- notification
\* document.querySelector('.notification'): the first one, or 0.
getNotification(children) == IF children = <<>> THEN 0 ELSE Head(children)

\* Variant: showNotification without the removal of the existing one.
RemoveExistingNotification_Skipped(children) == children

\* showNotification, "Remove existing notification".
RemoveExistingNotification(children) ==
    IF getNotification(children) # 0
    THEN ElementRemove(children, getNotification(children)).children
    ELSE children

\* How often element n has left the document, given one more change of the
\* body's children.
CountRemoval(count, before, after) ==
    [n \in NotifIds |->
        IF Contains(before, n) /\ ~Contains(after, n)
        THEN count[n] + 1 ELSE count[n]]

\* The severities the two lookup tables have an entry for.
Severities == {"success", "error", "warning", "info"}

\* The type strings showNotification is called with.
NotificationTypes == Severities \cup {"urgent", "constructor"}

\* The default of the type parameter.
DefaultType == "info"

icons ==
    [success |-> "fa-check-circle",
     error   |-> "fa-exclamation-circle",
     warning |-> "fa-exclamation-triangle",
     info    |-> "fa-info-circle"]

colors ==
    [success |-> "linear-gradient(90deg, #10b981, #34d399)",
     error   |-> "linear-gradient(90deg, #ef4444, #f87171)",
     warning |-> "linear-gradient(90deg, #f59e0b, #fbbf24)",
     info    |-> "linear-gradient(90deg, #3b82f6, #60a5fa)"]

\* The members an object literal inherits from Object.prototype, as the
\* text a template literal interpolates for them.
ObjectPrototype ==
    [constructor |-> "function Object() { [native code] }",
     toString    |-> "function toString() { [native code] }",
     valueOf     |-> "function valueOf() { [native code] }"]

\* table[key] on an object literal: its own property, else the inherited
\* one, else undefined.
Lookup(table, key) ==
    IF key \in DOMAIN table THEN table[key]
    ELSE IF key \in DOMAIN ObjectPrototype THEN ObjectPrototype[key]
    ELSE Undefined

getNotificationIcon(type) == OrElse(Lookup(icons, type), icons.info)

getNotificationColor(type) == OrElse(Lookup(colors, type), colors.info)

\* showNotification(message, type, duration): removes the displayed
\* notification, builds the new one, registers the close listener, starts
\* the auto-dismiss timer and appends the element to the body.
ShowNotification(type) ==
    /\ notifCount < MaxNotifs
    /\ LET n == notifCount + 1
           kept == RemoveExistingNotification(notifsInBody)
       IN  /\ notifCount' = n
           /\ notifsInBody' = Append(kept, n)
           /\ notifRemovals' = CountRemoval(notifRemovals, notifsInBody, kept)
           /\ autoPending' = autoPending \cup {n}
           /\ notifClass' = [notifClass EXCEPT ![n] = type]
           /\ notifIcon' = [notifIcon EXCEPT ![n] = getNotificationIcon(type)]
           /\ notifColor' = [notifColor EXCEPT ![n] = getNotificationColor(type)]
    /\ UNCHANGED <<navVars, overflow, timers, modalVars, notifAnim, notifThrew>>
    /\ UNCHANGED utilVars

\* The part of the state the notification callbacks write.
NotifState ==
    [children |-> notifsInBody, anim |-> notifAnim, timers |-> timers,
     threw |-> notifThrew]

\* Both dismissal paths: start the exit animation, remove 300 ms later.
startSlideOut(st, n) ==
    [st EXCEPT !.anim = [@ EXCEPT ![n] = "slideOut"],
               !.timers = Append(@, NotifTimer(n))]

\* Variant: the auto-dismiss callback with its test negated.
notifAutoDismiss_Negated(st, n) ==
    IF ~Contains(st.children, n) THEN startSlideOut(st, n) ELSE st

\* The auto-dismiss callback: acts only while the body contains the element.
notifAutoDismiss(st, n) ==
    IF Contains(st.children, n) THEN startSlideOut(st, n) ELSE st

\* Variant: document.body.removeChild(notification) in the 300 ms callbacks.
notifDetach_RemoveChild(children, n) == RemoveChild(children, n)

\* notification.remove() in the 300 ms callbacks.
notifDetach(children, n) == ElementRemove(children, n)

\* The callback both paths hand to setTimeout.
notifRemoveTimeout(st, n) ==
    LET r == notifDetach(st.children, n)
    IN  [st EXCEPT !.children = r.children, !.threw = @ \/ r.threw]

SetNotif(st) ==
    /\ notifsInBody' = st.children
    /\ notifAnim' = st.anim
    /\ timers' = st.timers
    /\ notifThrew' = st.threw
    /\ notifRemovals' = CountRemoval(notifRemovals, notifsInBody, st.children)

\* A click on the close button of the displayed notification: the button's
\* listener, then the document's.
ClickNotifClose(n) ==
    /\ Contains(notifsInBody, n)
    /\ Len(timers) < MaxTimers
    /\ SetNotif(startSlideOut(NotifState, n))
    /\ SetNav(handleClickOutside(NavState, "page"))
    /\ UNCHANGED <<modalVars, autoPending, notifCount, notifLook>>
    /\ UNCHANGED utilVars

\* The auto-dismiss timer of notification n fires.
AutoDismissFires(n) ==
    /\ n \in autoPending
    /\ Contains(notifsInBody, n) => Len(timers) < MaxTimers
    /\ SetNotif(notifAutoDismiss(NotifState, n))
    /\ autoPending' = autoPending \ {n}
    /\ UNCHANGED <<navVars, overflow, modalVars, notifCount, notifLook>>
    /\ UNCHANGED utilVars

\* The oldest 300 ms timer fires and it is a notification removal.
NotifRemoveFires ==
    /\ timers # <<>>
    /\ Head(timers).kind = "notifRemove"
    /\ SetNotif(notifRemoveTimeout([NotifState EXCEPT !.timers = Tail(@)],
                                   Head(timers).id))
    /\ UNCHANGED <<navVars, overflow, modalVars, autoPending, notifCount,
                   notifLook>>
    /\ UNCHANGED utilVars

\* showNotification(message): type takes its default.
NextNotif ==
    \/ ShowNotification(DefaultType)
    \/ \E n \in NotifIds : ClickNotifClose(n)
    \/ \E n \in NotifIds : AutoDismissFires(n)
    \/ NotifRemoveFires

SpecNotif == Init /\ [][NextNotif]_vars

\* setTimeout callbacks are run by the event loop once they are due.
SpecNotifLive ==
    /\ SpecNotif
    /\ WF_vars(NotifRemoveFires)
    /\ \A n \in NotifIds : WF_vars(AutoDismissFires(n))

\* showNotification(message, type) with every type string.
NextNotifTyped ==
    \/ \E type \in NotificationTypes : ShowNotification(type)
    \/ \E n \in NotifIds : ClickNotifClose(n)
    \/ \E n \in NotifIds : AutoDismissFires(n)
    \/ NotifRemoveFires

SpecNotifTyped == Init /\ [][NextNotifTyped]_vars

\* ------------------------------------------------------------ apiRequest
DefaultHeaders ==
    [ContentType |-> "application/json", Accept |-> "application/json"]

defaultOptions ==
    [headers |-> DefaultHeaders, credentials |-> "same-origin"]

\* The options apiRequest is called with.
RequestOptions ==
    { NoRequestOptions,
      [method |-> "POST"],
      [headers |-> [Authorization |-> "Bearer t"]],
      [headers |-> [ContentType |-> "text/plain"]] }

\* { ...a, ...b }: the own properties of a, then those of b over them.
Spread(a, b) ==
    [k \in DOMAIN a \cup DOMAIN b |-> IF k \in DOMAIN b THEN b[k] ELSE a[k]]

\* The status codes a response carries, and their text in a template literal.
Statuses == {200, 404, 500}
StatusText(status) ==
    CASE status = 200 -> "200" [] status = 404 -> "404" [] status = 500 -> "500"

\* response.ok: the status is in the range 200-299.
ResponseOk(status) == status \in 200..299

\* The values a promise of fetch or of response.json() rejects with. An
\* abort signal passed in options rejects with the reason given to abort(),
\* which is any value.
ErrorValue(msg) == [type |-> "Error", message |-> msg]
ThrownString == [type |-> "string", message |-> Undefined]
ThrownNull == [type |-> "null", message |-> Undefined]
FetchRejections ==
    { ErrorValue("Failed to fetch"), ErrorValue(""), ThrownString, ThrownNull }
JsonRejections ==
    { ErrorValue("Unexpected token < in JSON"), ThrownNull }

\* return { success: true, data }.
Fulfilled(payload) ==
    [state |-> "fulfilled", success |-> TRUE, error |-> Undefined,
     data |-> payload]

\* The catch block: error.message throws a TypeError when error is null,
\* and the async function's promise rejects with it; otherwise the block
\* returns the failure result.
CatchBlock(error) ==
    IF error.type = "null"
    THEN [state |-> "rejected", success |-> Undefined, error |-> Undefined,
          data |-> Undefined]
    ELSE [state |-> "fulfilled", success |-> FALSE,
          error |-> OrElse(error.message, "Network error occurred"),
          data |-> Undefined]

\* apiRequest(url, options) up to its first await: merges the options and
\* gives the request to fetch.
ApiRequest(opts) ==
    /\ apiCount < MaxRequests
    /\ LET r == apiCount + 1
           mergedOptions == Spread(defaultOptions, opts)
       IN  /\ apiCount' = r
           /\ apiOptions' = [apiOptions EXCEPT ![r] = opts]
           /\ apiSent' = [apiSent EXCEPT ![r] = Append(@, mergedOptions.headers)]
           /\ apiPhase' = [apiPhase EXCEPT ![r] = "fetching"]
    /\ UNCHANGED <<pageVars, debounceVars, loadingVars, apiFailure, apiResult>>

\* The fetch promise fulfils with a response: a status that is not ok is
\* thrown and caught at once, otherwise response.json() is awaited.
FetchFulfils(r, status) ==
    /\ apiPhase[r] = "fetching"
    /\ IF ResponseOk(status)
       THEN /\ apiPhase' = [apiPhase EXCEPT ![r] = "decoding"]
            /\ UNCHANGED <<apiFailure, apiResult>>
       ELSE /\ apiPhase' = [apiPhase EXCEPT ![r] = "returned"]
            /\ apiFailure' = [apiFailure EXCEPT ![r] = "status"]
            /\ apiResult' = [apiResult EXCEPT ![r] =
                   CatchBlock(ErrorValue("HTTP error! status: " \o StatusText(status)))]
    /\ UNCHANGED <<pageVars, debounceVars, loadingVars, apiCount, apiOptions, apiSent>>

\* The fetch promise rejects: the catch block runs.
FetchRejects(r, error) ==
    /\ apiPhase[r] = "fetching"
    /\ apiPhase' = [apiPhase EXCEPT ![r] = "returned"]
    /\ apiFailure' = [apiFailure EXCEPT ![r] = "transport"]
    /\ apiResult' = [apiResult EXCEPT ![r] = CatchBlock(error)]
    /\ UNCHANGED <<pageVars, debounceVars, loadingVars, apiCount, apiOptions, apiSent>>

\* response.json() fulfils with the decoded payload.
JsonFulfils(r) ==
    /\ apiPhase[r] = "decoding"
    /\ apiPhase' = [apiPhase EXCEPT ![r] = "returned"]
    /\ apiResult' = [apiResult EXCEPT ![r] = Fulfilled("payload")]
    /\ UNCHANGED <<pageVars, debounceVars, loadingVars, apiCount, apiOptions, apiSent,
                   apiFailure>>

\* response.json() rejects: the catch block runs.
JsonRejects(r, error) ==
    /\ apiPhase[r] = "decoding"
    /\ apiPhase' = [apiPhase EXCEPT ![r] = "returned"]
    /\ apiFailure' = [apiFailure EXCEPT ![r] = "decode"]
    /\ apiResult' = [apiResult EXCEPT ![r] = CatchBlock(error)]
    /\ UNCHANGED <<pageVars, debounceVars, loadingVars, apiCount, apiOptions, apiSent>>

NextApi ==
    \/ \E opts \in RequestOptions : ApiRequest(opts)
    \/ \E r \in ApiIds, status \in Statuses : FetchFulfils(r, status)
    \/ \E r \in ApiIds, error \in FetchRejections : FetchRejects(r, error)
    \/ \E r \in ApiIds : JsonFulfils(r)
    \/ \E r \in ApiIds, error \in JsonRejections : JsonRejects(r, error)

SpecApi == Init /\ [][NextApi]_vars

\* ------------------------------------------------- showLoading, hideLoading
\* The loading texts showLoading is called with.
LoadingTexts == {"Loading...", "Saving..."}

\* The markup showLoading assigns, as innerHTML reads it back.
SpinnerMarkup(loadingText) ==
    "<i class=\"fas fa-spinner fa-spin\" style=\"margin-right: 0.5rem;\"></i> "
        \o loadingText

\* setAttribute(name, flag): the attribute holds String(flag).
BooleanToString(flag) == IF flag THEN "true" ELSE "false"

\* if (value): a string is truthy unless it is absent or empty.
Truthy(value) == value # Undefined /\ value # ""

\* showLoading(element, loadingText).
showLoading(e, loadingText) ==
    [innerHTML |-> SpinnerMarkup(loadingText),
     disabled |-> TRUE,
     originalContent |-> e.innerHTML,
     originalDisabled |-> BooleanToString(e.disabled)]

\* hideLoading(element).
hideLoading(e) ==
    LET content == IF Truthy(e.originalContent)
                   THEN [e EXCEPT !.innerHTML = e.originalContent,
                                  !.originalContent = Undefined]
                   ELSE e
    IN  IF e.originalDisabled # Undefined
        THEN [content EXCEPT !.disabled = (e.originalDisabled = "true"),
                             !.originalDisabled = Undefined]
        ELSE content

\* A call of showLoading on element el.
ShowLoading(el, loadingText) ==
    /\ loadingShown[el] < MaxShows
    /\ element' = [element EXCEPT ![el] = showLoading(@, loadingText)]
    /\ loadingShown' = [loadingShown EXCEPT ![el] = @ + 1]
    /\ pristine' = IF loadingShown[el] = 0
                   THEN [pristine EXCEPT ![el] =
                            [innerHTML |-> element[el].innerHTML,
                             disabled |-> element[el].disabled]]
                   ELSE pristine
    /\ UNCHANGED <<pageVars, debounceVars, apiVars>>

\* A call of hideLoading on element el.
HideLoading(el) ==
    /\ element' = [element EXCEPT ![el] = hideLoading(@)]
    /\ loadingShown' = [loadingShown EXCEPT ![el] = 0]
    /\ UNCHANGED <<pageVars, debounceVars, apiVars, pristine>>

NextLoading ==
    \/ \E el \in ElementIds, text \in LoadingTexts : ShowLoading(el, text)
    \/ \E el \in ElementIds : HideLoading(el)

SpecLoading == InitAnyElements /\ [][NextLoading]_vars

\* --------------------------------------------------------------- debounce
\* The arguments the wrapper is called with.
CallArgs == {"a", "b"}

\* The part of the state the wrapper and its timer callback write.
DebounceState ==
    [timeout |-> dbTimeout, pending |-> dbPending, calls |-> dbCalls,
     invocations |-> dbInvocations]

\* clearTimeout(id): cancels the timer with that id when it is pending.
clearTimeout(pending, id) == { t \in pending : t.id # id }

\* setTimeout(later, wait) at time now: the callback is due wait later.
\* The id of the timer is the index of the call that made it.
setTimeout(pending, id, args, now, wait) ==
    pending \cup {[id |-> id, due |-> now + wait, args |-> args]}

\* Variant: the wrapper that starts a timer without cancelling the last.
executedFunction_NoClear(ds, args, now, wait) ==
    LET id == Len(ds.calls) + 1
    IN  [ds EXCEPT
           !.pending = setTimeout(ds.pending, id, args, now, wait),
           !.timeout = id,
           !.calls = Append(@, [time |-> now, args |-> args,
                                cancelled |-> 0])]

\* executedFunction(...args): cancels the timer in timeout, starts a new
\* one and keeps its id. The call records which pending timer it cancelled.
executedFunction(ds, args, now, wait) ==
    LET id == Len(ds.calls) + 1
        cancelled == IF \E t \in ds.pending : t.id = ds.timeout
                     THEN ds.timeout ELSE 0
    IN  [ds EXCEPT
           !.pending = setTimeout(clearTimeout(ds.pending, ds.timeout),
                                  id, args, now, wait),
           !.timeout = id,
           !.calls = Append(@, [time |-> now, args |-> args,
                                cancelled |-> cancelled])]

\* later(): the callback of timer t, run by the event loop at time now.
later(ds, t, now) ==
    [ds EXCEPT
       !.pending = clearTimeout(ds.pending \ {t}, ds.timeout),
       !.invocations = Append(@, [call |-> t.id, time |-> now,
                                  args |-> t.args])]

SetDebounce(ds) ==
    /\ dbTimeout' = ds.timeout
    /\ dbPending' = ds.pending
    /\ dbCalls' = ds.calls
    /\ dbInvocations' = ds.invocations

\* A millisecond passes. A timer that is due may still not have run.
Tick ==
    /\ dbNow < MaxTime
    /\ dbNow' = dbNow + 1
    /\ UNCHANGED <<pageVars, apiVars, loadingVars, dbWait, dbTimeout,
                   dbPending, dbCalls, dbInvocations>>

\* A call of the wrapper.
DebouncedCall(args) ==
    /\ Len(dbCalls) < MaxCalls
    /\ SetDebounce(executedFunction(DebounceState, args, dbNow, dbWait))
    /\ UNCHANGED <<pageVars, apiVars, loadingVars, dbWait, dbNow>>

\* The event loop runs the callback of a timer that is due.
DebounceTimerFires(t) ==
    /\ t \in dbPending
    /\ t.due <= dbNow
    /\ SetDebounce(later(DebounceState, t, dbNow))
    /\ UNCHANGED <<pageVars, apiVars, loadingVars, dbWait, dbNow>>

\* Every timer a behaviour can hold.
DebounceTimers ==
    [id : 1..MaxCalls, due : 0..(MaxTime + MaxWait), args : CallArgs]

NextDebounce ==
    \/ Tick
    \/ \E args \in CallArgs : DebouncedCall(args)
    \/ \E t \in DebounceTimers : DebounceTimerFires(t)

SpecDebounce == InitAnyWait /\ [][NextDebounce]_vars

\* ----------------------------------------------------------- whole page
Next == NextModalNav \/ NextNotifTyped \/ NextApi \/ NextLoading \/ NextDebounce

Spec == Init /\ [][Next]_vars

\* ------------------------------------------------ the handle's close() alone
\* The page whose only dismissal trigger is the handle's close().
NextHandleClose ==
    \/ \E o \in ModalOptions : ShowModal(o)
    \/ \E i \in ModalIds : HandleClose(i)
    \/ ModalTeardownFires

SpecHandleClose == Init /\ [][NextHandleClose]_vars

\* The page driven through showModal and the handle it returns.
NextHandle ==
    \/ NextHandleClose
    \/ \E i \in ModalIds, c \in NewContents : UpdateContent(i, c)

SpecHandle == Init /\ [][NextHandle]_vars

\* ------------------------------------------------------------ properties
Created(i) == i \in 1..modalCount

\* A dismissal trigger has occurred for modal i: closeModal ran for it.
Dismissed(i) == Created(i) /\ modalAnim[i] = "fadeOut"

\* A teardown callback of modal i is still to run.
TeardownPending(i) == \E k \in 1..Len(timers) : timers[k] = ModalTimer(i)

\* Modal i is displayed and nothing has dismissed it.
ModalOpen(i) == Contains(modalsInBody, i) /\ modalAnim[i] = "fadeIn"

\* C1: a modal created with an onClose callback has it invoked at most once,
\* and once a dismissal trigger has occurred for it while it was displayed
\* and all its teardown callbacks have run, onClose has been invoked exactly
\* once.
C1_OnCloseExactlyOnce ==
    \A i \in ModalIds :
        (Created(i) /\ options[i].onClose) =>
            /\ onCloseCalls[i] <= 1
            /\ (i \in dismissedShown /\ ~TeardownPending(i)) =>
                   onCloseCalls[i] = 1

\* C2: with close() as the only trigger on a modal that is never replaced,
\* no teardown callback raises an error however often close() is called, and
\* once the callbacks have run onClose has been invoked exactly once.
C2_CloseIdempotent ==
    modalCount = 1 =>
        /\ modalThrew = {}
        /\ (options[1].onClose /\ Dismissed(1) /\ ~TeardownPending(1)) =>
               onCloseCalls[1] = 1

\* C3: at most one modal element is in the document; the one displayed is
\* that of the latest showModal call and carries its title and content;
\* every showModal call leaves exactly its own element in the document and
\* invokes no onClose; onClose is invoked only for a modal that a dismissal
\* trigger has reached.
C3_SingleModal ==
    /\ [](/\ Len(modalsInBody) <= 1
          /\ \A i \in ModalIds :
                /\ Contains(modalsInBody, i) =>
                      /\ i = modalCount
                      /\ titleText[i] = OrElse(options[i].title, "Modal")
                      /\ bodyHTML[i] = OrElse(options[i].content, "")
                /\ onCloseCalls[i] > 0 => Dismissed(i))
    /\ [][modalCount' # modalCount =>
              /\ modalsInBody' = <<modalCount'>>
              /\ onCloseCalls' = onCloseCalls
              /\ closeLog' = closeLog]_vars

\* C3 witness: the second modal replaced the first, which has an onClose
\* callback, was never dismissed and never had it invoked.
C3_Witness ==
    /\ modalCount = 2
    /\ modalsInBody = <<2>>
    /\ options[1].onClose
    /\ ~Dismissed(1)
    /\ onCloseCalls[1] = 0
    /\ titleText[2] # titleText[1]

\* C4: the registered closeOnEscape listeners are exactly those of the
\* modals that are open.
C4_EscapeListenerPerOpenModal ==
    escListeners = { i \in ModalIds : ModalOpen(i) }

\* C5: whenever onClose was invoked, it was from the timer callback, the exit
\* animation of its modal had been started, the modal element was no longer
\* in the document and scrolling was restored.
C5_TeardownOrder ==
    \A k \in 1..Len(closeLog) :
        /\ closeLog[k].during = "timer"
        /\ ~closeLog[k].inDocument
        /\ closeLog[k].overflow = ""
        /\ modalAnim[closeLog[k].id] = "fadeOut"

\* C5 witness: onClose has been invoked for a modal.
C5_Witness ==
    /\ closeLog # <<>>
    /\ onCloseCalls[closeLog[1].id] = 1

\* C6: no notification callback raises an error and no notification leaves
\* the document more than once.
C6_NoDoubleRemove ==
    /\ ~notifThrew
    /\ \A n \in NotifIds : notifRemovals[n] <= 1

\* C6 witness: the latest notification was removed by one removal callback
\* while a second removal callback for it is still pending, its auto-dismiss
\* timer having fired.
C6_Witness ==
    /\ notifCount = 1
    /\ 1 \notin autoPending
    /\ notifRemovals[1] = 1
    /\ ~Contains(notifsInBody, 1)
    /\ timers = <<NotifTimer(1)>>

\* C7: at most one notification element is in the document, it is the one of
\* the latest call, and the latest notification stays in the document until
\* its own exit animation has been started.
C7_SingleNotification ==
    /\ Len(notifsInBody) <= 1
    /\ \A n \in NotifIds :
          /\ Contains(notifsInBody, n) => n = notifCount
          /\ (n = notifCount /\ notifAnim[n] = "slideIn") =>
                Contains(notifsInBody, n)

\* C7 witness: the second notification is displayed untouched after the
\* removal callback of the first, replaced, one has run.
C7_Witness ==
    /\ notifCount = 2
    /\ notifsInBody = <<2>>
    /\ notifAnim[1] = "slideOut"
    /\ notifAnim[2] = "slideIn"
    /\ timers = <<>>
    /\ 1 \notin autoPending

\* C8: every notification in the document eventually is not in the document.
C8_EventuallyDismissed ==
    \A n \in NotifIds :
        Contains(notifsInBody, n) ~> ~Contains(notifsInBody, n)

\* C8 witness: the only notification has left the document after its
\* auto-dismiss timer fired and the exit delay passed.
C8_Witness ==
    /\ notifCount = 1
    /\ 1 \notin autoPending
    /\ notifAnim[1] = "slideOut"
    /\ notifsInBody = <<>>
    /\ timers = <<>>

\* Teardown callbacks pending for modal i.
PendingTeardowns(q, i) == Cardinality({ k \in 1..Len(q) : q[k] = ModalTimer(i) })

\* C9: an Escape keydown schedules a teardown for every open modal and none
\* for a modal that is not in the document, and it closes the menu when the
\* menu is open and leaves the menu alone when it is closed.
C9_EscapeOnlyClosesOpen ==
    [][KeydownEscape =>
          /\ \A i \in ModalIds :
                /\ ModalOpen(i) =>
                      PendingTeardowns(timers', i) = PendingTeardowns(timers, i) + 1
                /\ ~Contains(modalsInBody, i) =>
                      PendingTeardowns(timers', i) = PendingTeardowns(timers, i)
          /\ menuOpen => ~menuOpen'
          /\ ~menuOpen => UNCHANGED <<menuOpen, toggleIcon, overflow>>]_vars

\* A click whose target is outside both the menu and the toggle.
ClickOutsideMenu ==
    \/ ClickPage
    \/ \E i \in ModalIds : ClickModalContent(i)
    \/ \E i \in ModalIds : ClickCloseButton(i)
    \/ \E i \in ModalIds : ClickBackdrop(i)
    \/ \E n \in NotifIds : ClickNotifClose(n)

\* C10: a click on the toggle flips the menu; from Open, Escape, a click
\* outside the menu and the toggle, and a click on a nav link close it; no
\* other step changes it.
C10_MenuStateMachine ==
    [][/\ (\E target \in ToggleTargets : ClickMenuToggle(target)) =>
              menuOpen' = ~menuOpen
       /\ (menuOpen /\ (KeydownEscape \/ ClickOutsideMenu \/ ClickNavLink)) =>
              ~menuOpen'
       /\ menuOpen' # menuOpen =>
              \/ \E target \in ToggleTargets : ClickMenuToggle(target)
              \/ menuOpen /\ (KeydownEscape \/ ClickOutsideMenu \/ ClickNavLink)
      ]_vars

\* C11: with no modal on the page, the menu is open exactly when scrolling
\* is disabled and exactly when the toggle shows the close glyph; closed, the
\* page scrolls and the toggle shows the bars glyph.
C11_MenuScrollLock ==
    (menuTogglePresent /\ navLinksPresent /\ modalCount = 0) =>
        /\ menuOpen <=> overflow = "hidden"
        /\ menuOpen <=> toggleIcon = "times"
        /\ ~menuOpen => (overflow = "" /\ toggleIcon = "bars")

\* C11 witness: the menu is open, scrolling locked, the close glyph shown.
C11_Witness ==
    /\ modalCount = 0
    /\ menuOpen
    /\ overflow = "hidden"
    /\ toggleIcon = "times"

\* C13: every fade-in element starts hidden and observed; an element is
\* revealed exactly when it is no longer observed; a revealed element stays
\* revealed and an unobserved one stays unobserved; an element reported as
\* intersecting is revealed by that report.
C13_FadeInOneShot ==
    /\ \A e \in FadeIds : fadeOpacity[e] = "0" /\ e \in fadeObserved
    /\ [](\A e \in FadeIds : fadeOpacity[e] = "1" <=> e \notin fadeObserved)
    /\ [][/\ \A e \in FadeIds :
               /\ fadeOpacity[e] = "1" => fadeOpacity'[e] = "1"
               /\ e \notin fadeObserved => e \notin fadeObserved'
          /\ \A entries \in EntryBatches :
               IntersectionReport(entries) =>
                   \A k \in 1..Len(entries) :
                       entries[k].isIntersecting =>
                           fadeOpacity'[entries[k].target] = "1"]_vars

\* C13 witness: one element is revealed and unobserved while another is
\* still hidden and observed.
C13_Witness ==
    /\ fadeOpacity[1] = "1"
    /\ 1 \notin fadeObserved
    /\ fadeOpacity[2] = "0"
    /\ 2 \in fadeObserved

\* C16: on a page that lacks the toggle, the link list or the navbar, no
\* navigation handler raises an error, and the state the missing element
\* would carry never changes.
C16_MissingTargetsNoOp ==
    /\ ~navLinksPresent => ~navThrew
    /\ ~menuTogglePresent => ~navThrew
    /\ ~navbarPresent => (~navThrew /\ ~navbarScrolled)
    /\ (~menuTogglePresent \/ ~navLinksPresent) =>
           (~menuOpen /\ overflow = "" /\ toggleIcon = "bars")

\* What a dismissal trigger writes.
dismissalVars == <<timers, modalAnim, escListeners, dismissedShown>>

\* C12: a click on a descendant of the overlay other than the close button
\* starts no teardown; a click on the overlay itself starts none when
\* closeOnOutsideClick is false, and starts exactly one, for that modal,
\* otherwise.
C12_OutsideClickOnlyOnBackdrop ==
    [][\A i \in ModalIds :
          /\ ClickModalContent(i) => UNCHANGED dismissalVars
          /\ (ClickBackdrop(i) /\ options[i].closeOnOutsideClick = "false") =>
                 UNCHANGED dismissalVars
          /\ (ClickBackdrop(i) /\ options[i].closeOnOutsideClick # "false") =>
                 /\ timers' = Append(timers, ModalTimer(i))
                 /\ modalAnim'[i] = "fadeOut"]_vars

\* C12 witness: a modal created with closeOnOutsideClick false is still
\* open after a click that closed the menu over it.
C12_Witness ==
    \E i \in ModalIds :
        /\ ModalOpen(i)
        /\ options[i].closeOnOutsideClick = "false"
        /\ ~menuOpen
        /\ overflow = ""
        /\ ~TeardownPending(i)

\* C18: a step that changes the body markup of an existing modal changes
\* nothing else: not the animation, the document, the scroll lock, the
\* listeners, the timers, nor the count of onClose invocations.
C18_UpdateContentFrame ==
    [][(bodyHTML' # bodyHTML /\ modalCount' = modalCount) =>
          UNCHANGED <<navVars, overflow, timers, notifVars, modalsInBody,
                      escListeners, modalCount, options, titleText, modalAnim,
                      onCloseCalls, closeLog, modalThrew, dismissedShown,
                      utilVars>>]_vars

\* C18 witness: the body of a modal that is being torn down was replaced.
C18_Witness ==
    \E i \in ModalIds :
        /\ bodyHTML[i] \in NewContents
        /\ Contains(modalsInBody, i)
        /\ modalAnim[i] = "fadeOut"
        /\ TeardownPending(i)

\* C19: while a modal is in the document and nothing has dismissed it, body
\* scrolling is disabled, whatever the mobile menu does meanwhile.
C19_ModalKeepsScrollLock ==
    \A i \in ModalIds : ModalOpen(i) => overflow = "hidden"

\* C14: every notification built for one of the four severities carries
\* that severity's icon and color, every notification built for any other
\* type string carries the info icon and the info color, and no error is
\* raised.
C14_IconColorFallback ==
    /\ ~notifThrew
    /\ \A n \in 1..notifCount :
          IF notifClass[n] \in Severities
          THEN /\ notifIcon[n] = icons[notifClass[n]]
               /\ notifColor[n] = colors[notifClass[n]]
          ELSE /\ notifIcon[n] = icons.info
               /\ notifColor[n] = colors.info

\* C15: the promise of an apiRequest call never rejects; when the status,
\* the transport or the decoding failed it fulfils with success false and
\* an error that is a non-empty string; it fulfils with success true and
\* the decoded payload only when nothing failed.
C15_NeverRaises ==
    \A r \in 1..apiCount :
        /\ apiResult[r].state # "rejected"
        /\ (apiPhase[r] = "returned" /\ apiFailure[r] # "none") =>
               /\ apiResult[r].state = "fulfilled"
               /\ apiResult[r].success = FALSE
               /\ apiResult[r].error # Undefined
               /\ apiResult[r].error # ""
        /\ (apiResult[r].state = "fulfilled" /\ apiResult[r].success) =>
               /\ apiFailure[r] = "none"
               /\ apiResult[r].data = "payload"

\* The headers the caller passed to call r.
SuppliedHeaders(r) ==
    IF "headers" \in DOMAIN apiOptions[r]
    THEN apiOptions[r].headers ELSE NoRequestOptions

\* C17: every apiRequest call gives fetch exactly one request, whose headers
\* hold every header the caller supplied and every default header whose
\* name the caller did not supply, with its default value.
C17_HeadersMerged ==
    \A r \in 1..apiCount :
        /\ Len(apiSent[r]) = 1
        /\ \A h \in DOMAIN SuppliedHeaders(r) :
               /\ h \in DOMAIN apiSent[r][1]
               /\ apiSent[r][1][h] = SuppliedHeaders(r)[h]
        /\ \A h \in DOMAIN DefaultHeaders \ DOMAIN SuppliedHeaders(r) :
               /\ h \in DOMAIN apiSent[r][1]
               /\ apiSent[r][1][h] = DefaultHeaders[h]

\* C20: an element on which no showLoading is outstanding has the content
\* and the disabled flag it had before showLoading and carries neither
\* saved-original attribute, also after two showLoading calls in a row.
C20_LoadingRoundTrip ==
    \A el \in ElementIds :
        loadingShown[el] = 0 =>
            /\ element[el].innerHTML = pristine[el].innerHTML
            /\ element[el].disabled = pristine[el].disabled
            /\ element[el].originalContent = Undefined
            /\ element[el].originalDisabled = Undefined

\* The invocations of func made for call k.
InvocationsOf(k) ==
    { n \in 1..Len(dbInvocations) : dbInvocations[n].call = k }

\* The timer of call k is still pending.
TimerPendingOf(k) == \E t \in dbPending : t.id = k

\* Every invocation is made by a timer callback, not before wait has
\* elapsed since the call that started the timer, with that call's
\* arguments; at most one timer is pending.
InvokedLateWithOwnArgs ==
    /\ Cardinality(dbPending) <= 1
    /\ \A n \in 1..Len(dbInvocations) :
          LET k == dbInvocations[n].call
          IN  /\ k \in 1..Len(dbCalls)
              /\ dbInvocations[n].time >= dbCalls[k].time + dbWait
              /\ dbInvocations[n].args = dbCalls[k].args

\* Call k ends a burst by the clock: no call follows it within wait.
EndsBurst(k) ==
    k = Len(dbCalls) \/ dbCalls[k + 1].time - dbCalls[k].time >= dbWait

\* C21 as stated: bursts are told apart by the times of the calls. func is
\* invoked only for the last call of a burst, late enough and with its
\* arguments, at most one timer is pending, and the last call of every burst
\* has its timer pending or has had func invoked for it exactly once.
C21_OncePerBurst ==
    /\ InvokedLateWithOwnArgs
    /\ \A k \in 1..Len(dbCalls) :
          IF EndsBurst(k)
          THEN \/ TimerPendingOf(k) /\ InvocationsOf(k) = {}
               \/ ~TimerPendingOf(k) /\ Cardinality(InvocationsOf(k)) = 1
          ELSE ~TimerPendingOf(k) /\ InvocationsOf(k) = {}

\* Call k was followed by a call made while the timer of k was pending.
Superseded(k) == k < Len(dbCalls) /\ dbCalls[k + 1].cancelled = k

\* C21 amended: bursts are told apart by the timer. A call made while the
\* timer of the previous call is pending, however late, cancels it; every
\* call is superseded in this way, or has its timer pending, or has had
\* func invoked for it exactly once, and exactly one of the three.
C21_OncePerTimerRun ==
    /\ InvokedLateWithOwnArgs
    /\ \A k \in 1..Len(dbCalls) :
          \/ /\ Superseded(k)
             /\ ~TimerPendingOf(k)
             /\ InvocationsOf(k) = {}
          \/ /\ ~Superseded(k)
             /\ TimerPendingOf(k)
             /\ InvocationsOf(k) = {}
          \/ /\ ~Superseded(k)
             /\ ~TimerPendingOf(k)
             /\ Cardinality(InvocationsOf(k)) = 1

\* C21 witness: a call that came wait or more after the previous one found
\* its timer still pending and cancelled it, and func ran once, for the
\* later call, with its arguments.
C21_Witness ==
    /\ Len(dbCalls) = 2
    /\ dbCalls[2].time - dbCalls[1].time >= dbWait
    /\ dbCalls[2].cancelled = 1
    /\ dbCalls[1].args # dbCalls[2].args
    /\ Len(dbInvocations) = 1
    /\ dbInvocations[1].call = 2
    /\ dbInvocations[1].args = dbCalls[2].args
    /\ dbPending = {}

====
